---------------------------- MODULE Spec2Model ----------------------------
(***************************************************************************)
(* Auto-save coordination of the Smart Blog Editor front end.              *)
(*                                                                         *)
(* The model follows frontend/src/hooks/useAutoSave.js (the hook that      *)
(* owns the in-flight flag, the retry counter, the save queue and the      *)
(* status shown to the user) and the part of the editor page that feeds    *)
(* it (pages/EditorPage: the tagged content object, the modified flag and  *)
(* the switch of the current post), the debounce of utils/debounce.js and  *)
(* the AutoSavePlugin of the Lexical editor that uses it to deliver the    *)
(* editor's content to the page, and the posts actions of the store        *)
(* (store/useStore.js) with the list that calls them                       *)
(* (components/PostList.jsx).  Time is discrete, one unit = 1000 ms:       *)
(* every setTimeout is a countdown that Tick decrements and that fires     *)
(* when it reaches 0.  The latency of the network call is unconstrained.   *)
(***************************************************************************)
EXTENDS Integers, Sequences, FiniteSets, TLC

(* ------------------------------ bounds -------------------------------- *)
MaxOps   == 4   \* user operations in one behaviour: edits, manual saves
                \* and changes of the current post (the first loads one)
MaxFails == 4   \* failing responses of the persistence call
MaxCalls == 3   \* invocations of the debounced functions under test
MaxCancels == 2 \* calls of their cancel()
MaxTime  == 5   \* time that passes while they are under test
MaxBusy  == 3   \* user operations in a behaviour checked for progress
MaxActs  == 4   \* store actions started in one behaviour

(* ------------------------- program constants -------------------------- *)
maxRetries == 3    \* useAutoSave.js:26
delay      == 2    \* useAutoSave.js:21 (2000 ms)
retryDelay == 1    \* useAutoSave.js:91 (1000 ms)
saveDelay  == 2    \* AutoSavePlugin: debounce(..., 2000)
primWait   == 2    \* wait given to debounce and debounceAdvanced on their own
MaxSince   == delay + saveDelay + 1
StartTime  == 3    \* Date.now() when they are created: more than wait

Posts  == {"A", "B"}
NoPost == "none"                               \* currentPost === null
None   == [postId |-> NoPost, val |-> 0]       \* content === null
NoError == "null"
NoTimer == -1
Null    == 0                                   \* null timeout id, null ref
NoCurrent == [id |-> NoPost, status |-> "none"] \* currentPost === null
StoredPosts == {"A"}         \* the posts the back end holds at the start

VARIABLES
    postId,            \* currentPost?.id, the hook's first argument
    content,           \* the hook's second argument (None when not modified)
    dbValue, dbTimer,  \* useDebounce: value waiting for the quiet period
    debouncedContent,  \* useDebounce: value handed to the save effect
    status, error, lastSaved,
    retryCount, isMounted, saveQueue, isSaving,
    insts,             \* activations of saveContent suspended inside try
    timers,            \* pending retry timers of line 91
    calls,             \* history: every postsAPI.update issued, in order
    subs,              \* history: every saveContent call by effect/saveNow
    sinceFail,         \* history: time since the failure whose retry is
                       \* awaited, -1 when nothing is running or scheduled
    nEdits, nOps, nFails,
    nSwitches,         \* history: how often the current post changed
    debouncedSave,     \* AutoSavePlugin: the debounce instance (timeoutId
                       \* and the timeouts it has set and not cleared)
    lastSavedState,    \* AutoSavePlugin: ref to the last delivered state
    dlog,              \* history: calls, executions and cancels of the
                       \* debounced function
    dropped,           \* history: editor states that were waiting in
                       \* the debounce when the current post changed
    sinceEdit,         \* history: time since the last change made in the
                       \* editor of the current post (-1: none, counted
                       \* up to MaxSince)
    leading, trailing, \* options given to debounceAdvanced
    now,               \* Date.now()
    deb,               \* an instance of debounce(func, primWait)
    debAdv,            \* an instance of debounceAdvanced(func, primWait,
                       \* {leading, trailing}) given the same calls
    plog,              \* history: calls, cancels and the executions of
                       \* func by either instance, with their time
    nCalls, nCancels,
    posts,             \* store: the list of posts
    currentPost,       \* store: the post being edited (NoCurrent: null)
    isLoading,         \* store
    storeError,        \* store: its field error
    server,            \* the posts as the back end holds them
    reqs,              \* API requests of store actions on their way: sent,
                       \* or answered and not yet back in the action
    deleted,           \* history: posts whose deletePost returned success
    nActs

hookVars == <<status, error, lastSaved, retryCount, saveQueue, isSaving,
              insts, timers, calls, sinceFail>>
editorVars == <<debouncedSave, lastSavedState, dlog, dropped, sinceEdit>>
primVars == <<leading, trailing, now, deb, debAdv, plog, nCalls, nCancels>>
storeVars == <<posts, currentPost, isLoading, storeError, server, reqs,
               deleted, nActs>>
pageVars == <<postId, content, dbValue, dbTimer, debouncedContent, isMounted,
             hookVars, subs, nEdits, nOps, nFails, nSwitches, editorVars>>
appVars == <<pageVars, storeVars>>
vars == <<appVars, primVars>>

(* The mutable cells saveContent reads and writes, as one record. *)
Hook == [status |-> status, error |-> error, lastSaved |-> lastSaved,
         retryCount |-> retryCount, saveQueue |-> saveQueue,
         isSaving |-> isSaving, insts |-> insts, timers |-> timers,
         calls |-> calls, sinceFail |-> sinceFail]

Commit(s) ==
    /\ status' = s.status
    /\ error' = s.error
    /\ lastSaved' = s.lastSaved
    /\ retryCount' = s.retryCount
    /\ saveQueue' = s.saveQueue
    /\ isSaving' = s.isSaving
    /\ insts' = s.insts
    /\ timers' = s.timers
    /\ calls' = s.calls
    /\ sinceFail' = IF s.insts = <<>> /\ s.timers = <<>>
                    THEN -1 ELSE s.sinceFail

RECURSIVE Pow2(_)
Pow2(n) == IF n = 0 THEN 1 ELSE 2 * Pow2(n - 1)

(* Math.pow(2, retryCount.current) * 1000, in units of 1000 ms *)
backoffDelay(rc) == Pow2(rc)

RemoveAt(seq, i) == SubSeq(seq, 1, i - 1) \o SubSeq(seq, i + 1, Len(seq))

(* const { postId: _, ...contentForAPI } = contentToSave;                  *)
(* postsAPI.update(postId, contentForAPI): the call is logged with the     *)
(* target post, the body and the tag the body was stripped of.             *)
IssueCall(s, p, c) ==
    [s EXCEPT !.calls = Append(@, [post |-> p, body |-> c.val,
                                   tag |-> c.postId, outcome |-> "pending"]),
              !.sinceFail = -1,
              !.insts = Append(@, [post |-> p, req |-> c, phase |-> "call",
                                   t |-> NoTimer, call |-> Len(s.calls) + 1])]

(* saveContent whose postId validation reports the mismatch as an error *)
saveContent_LoudGuard(s, p, c) ==
    IF p = NoPost \/ s.isSaving
    THEN [s EXCEPT !.saveQueue = Append(@, c)]
    ELSE IF c.postId # NoPost /\ c.postId # p
    THEN [s EXCEPT !.status = "error", !.error = "Failed to save"]
    ELSE LET s1 == [s EXCEPT !.isSaving = TRUE, !.status = "saving",
                             !.error = NoError]
         IN  IF s.retryCount > 0
             THEN [s1 EXCEPT !.insts = Append(@,
                      [post |-> p, req |-> c, phase |-> "backoff",
                       t |-> backoffDelay(s.retryCount), call |-> 0])]
             ELSE IssueCall(s1, p, c)

(* saveContent without setStatus('saving') (no line 54) *)
saveContent_NoStatus(s, p, c) ==
    IF p = NoPost \/ s.isSaving
    THEN [s EXCEPT !.saveQueue = Append(@, c)]
    ELSE IF c.postId # NoPost /\ c.postId # p
    THEN s
    ELSE LET s1 == [s EXCEPT !.isSaving = TRUE, !.error = NoError]
         IN  IF s.retryCount > 0
             THEN [s1 EXCEPT !.insts = Append(@,
                      [post |-> p, req |-> c, phase |-> "backoff",
                       t |-> backoffDelay(s.retryCount), call |-> 0])]
             ELSE IssueCall(s1, p, c)

(* saveContent without the postId validation of lines 45-51 *)
saveContent_NoGuard(s, p, c) ==
    IF p = NoPost \/ s.isSaving
    THEN [s EXCEPT !.saveQueue = Append(@, c)]
    ELSE LET s1 == [s EXCEPT !.isSaving = TRUE, !.status = "saving",
                             !.error = NoError]
         IN  IF s.retryCount > 0
             THEN [s1 EXCEPT !.insts = Append(@,
                      [post |-> p, req |-> c, phase |-> "backoff",
                       t |-> backoffDelay(s.retryCount), call |-> 0])]
             ELSE IssueCall(s1, p, c)

(* saveContent that does not test isSaving.current in line 38 *)
saveContent_NoFlag(s, p, c) ==
    IF p = NoPost
    THEN [s EXCEPT !.saveQueue = Append(@, c)]
    ELSE IF c.postId # NoPost /\ c.postId # p
    THEN s
    ELSE LET s1 == [s EXCEPT !.isSaving = TRUE, !.status = "saving",
                             !.error = NoError]
         IN  IF s.retryCount > 0
             THEN [s1 EXCEPT !.insts = Append(@,
                      [post |-> p, req |-> c, phase |-> "backoff",
                       t |-> backoffDelay(s.retryCount), call |-> 0])]
             ELSE IssueCall(s1, p, c)

(* saveContent(contentToSave) of the closure bound to post p, up to its    *)
(* first suspension point.                                                 *)
saveContent(s, p, c) ==
    IF p = NoPost \/ s.isSaving
    THEN [s EXCEPT !.saveQueue = Append(@, c)]
    ELSE IF c.postId # NoPost /\ c.postId # p
    THEN s
    ELSE LET s1 == [s EXCEPT !.isSaving = TRUE, !.status = "saving",
                             !.error = NoError]
         IN  IF s.retryCount > 0
             THEN [s1 EXCEPT !.insts = Append(@,
                      [post |-> p, req |-> c, phase |-> "backoff",
                       t |-> backoffDelay(s.retryCount), call |-> 0])]
             ELSE IssueCall(s1, p, c)

(* finally block that leaves the queue alone (no lines 104-108) *)
finallyBlock_NoDrain(s, i) ==
    [s EXCEPT !.isSaving = FALSE, !.insts = RemoveAt(@, i)]

(* finally block that takes the oldest queued request (shift for pop) *)
finallyBlock_Oldest(s, i) ==
    LET p  == s.insts[i].post
        s1 == [s EXCEPT !.isSaving = FALSE, !.insts = RemoveAt(@, i)]
    IN  IF Len(s1.saveQueue) > 0
        THEN saveContent([s1 EXCEPT !.saveQueue = <<>>], p, s1.saveQueue[1])
        ELSE s1

(* finally block that pops the latest request but keeps the older ones *)
finallyBlock_KeepRest(s, i) ==
    LET p  == s.insts[i].post
        s1 == [s EXCEPT !.isSaving = FALSE, !.insts = RemoveAt(@, i)]
    IN  IF Len(s1.saveQueue) > 0
        THEN saveContent([s1 EXCEPT !.saveQueue =
                              SubSeq(@, 1, Len(@) - 1)], p,
                         s1.saveQueue[Len(s1.saveQueue)])
        ELSE s1

(* finally { ... } of the activation at position i *)
finallyBlock(s, i) ==
    LET p  == s.insts[i].post
        s1 == [s EXCEPT !.isSaving = FALSE, !.insts = RemoveAt(@, i)]
    IN  IF Len(s1.saveQueue) > 0
        THEN saveContent([s1 EXCEPT !.saveQueue = <<>>], p,
                         s1.saveQueue[Len(s1.saveQueue)])
        ELSE s1

(* success branch without setStatus('saved') (no line 74) *)
onSuccess_NoStatus(s, i) ==
    LET k == s.insts[i].call
        s1 == [s EXCEPT !.calls[k].outcome = "ok"]
    IN  IF isMounted
        THEN [s1 EXCEPT !.lastSaved = k, !.retryCount = 0]
        ELSE s1

(* success branch without setLastSaved(new Date()) (no line 75) *)
onSuccess_NoTimestamp(s, i) ==
    LET k == s.insts[i].call
        s1 == [s EXCEPT !.calls[k].outcome = "ok"]
    IN  IF isMounted
        THEN [s1 EXCEPT !.status = "saved", !.retryCount = 0]
        ELSE s1

(* the statements after the awaited call resolved (lines 72-77); the       *)
(* timestamp new Date() is represented by the ordinal of the call that     *)
(* succeeded, 0 standing for null                                          *)
onSuccess(s, i) ==
    LET k == s.insts[i].call
        s1 == [s EXCEPT !.calls[k].outcome = "ok"]
    IN  IF isMounted
        THEN [s1 EXCEPT !.status = "saved", !.lastSaved = k,
                        !.retryCount = 0]
        ELSE s1

(* catch block that never schedules the retry (no line 91) *)
onFailure_NoTimer(s, i) ==
    LET k == s.insts[i].call
        s1 == [s EXCEPT !.calls[k].outcome =
                   IF s.retryCount < maxRetries THEN "fail" ELSE "exhausted"]
    IN  IF s.retryCount < maxRetries
        THEN LET s2 == [s1 EXCEPT !.retryCount = @ + 1]
             IN  IF isMounted
                 THEN [s2 EXCEPT !.status = "retrying", !.sinceFail = 0]
                 ELSE s2
        ELSE LET s2 == IF isMounted
                       THEN [s1 EXCEPT !.status = "error",
                                       !.error = "Failed to save"]
                       ELSE s1
             IN  [s2 EXCEPT !.retryCount = 0]

(* catch block that leaves retryCount as it is when the retries are        *)
(* exhausted (no line 98)                                                  *)
onFailure_NoReset(s, i) ==
    LET k == s.insts[i].call
        s1 == [s EXCEPT !.calls[k].outcome =
                   IF s.retryCount < maxRetries THEN "fail" ELSE "exhausted"]
    IN  IF s.retryCount < maxRetries
        THEN LET s2 == [s1 EXCEPT !.retryCount = @ + 1]
             IN  IF isMounted
                 THEN [s2 EXCEPT !.status = "retrying",
                                 !.sinceFail = 0,
                                 !.timers = Append(@,
                                     [post |-> s.insts[i].post,
                                      req |-> s.insts[i].req,
                                      t |-> retryDelay])]
                 ELSE s2
        ELSE IF isMounted
             THEN [s1 EXCEPT !.status = "error", !.error = "Failed to save"]
             ELSE s1

(* catch block that compares with <= and so retries once more *)
onFailure_OneMore(s, i) ==
    LET k == s.insts[i].call
        s1 == [s EXCEPT !.calls[k].outcome =
                   IF s.retryCount <= maxRetries THEN "fail" ELSE "exhausted"]
    IN  IF s.retryCount <= maxRetries
        THEN LET s2 == [s1 EXCEPT !.retryCount = @ + 1]
             IN  IF isMounted
                 THEN [s2 EXCEPT !.status = "retrying",
                                 !.sinceFail = 0,
                                 !.timers = Append(@,
                                     [post |-> s.insts[i].post,
                                      req |-> s.insts[i].req,
                                      t |-> retryDelay])]
                 ELSE s2
        ELSE LET s2 == IF isMounted
                       THEN [s1 EXCEPT !.status = "error",
                                       !.error = "Failed to save"]
                       ELSE s1
             IN  [s2 EXCEPT !.retryCount = 0]

(* catch (err) { ... } (lines 78-99) *)
onFailure(s, i) ==
    LET k == s.insts[i].call
        s1 == [s EXCEPT !.calls[k].outcome =
                   IF s.retryCount < maxRetries THEN "fail" ELSE "exhausted"]
    IN  IF s.retryCount < maxRetries
        THEN LET s2 == [s1 EXCEPT !.retryCount = @ + 1]
             IN  IF isMounted
                 THEN [s2 EXCEPT !.status = "retrying",
                                 !.sinceFail = 0,
                                 !.timers = Append(@,
                                     [post |-> s.insts[i].post,
                                      req |-> s.insts[i].req,
                                      t |-> retryDelay])]
                 ELSE s2
        ELSE LET s2 == IF isMounted
                       THEN [s1 EXCEPT !.status = "error",
                                       !.error = "Failed to save"]
                       ELSE s1
             IN  [s2 EXCEPT !.retryCount = 0]

(* useDebounce(content, delay) (hooks/useDebounce.js): a change of the     *)
(* value restarts the quiet period; the latest value is delivered once     *)
useDebounce(old, new) ==
    IF new # old
    THEN dbValue' = new /\ dbTimer' = delay
    ELSE UNCHANGED <<dbValue, dbTimer>>

(* --------------------- utils/debounce.js: debounce ------------------- *)
(* A debounce instance is its closure variable timeoutId and the timeouts  *)
(* it has set that were neither cleared nor fired.                         *)
NoDebounce == [timeoutId |-> Null, pending |-> <<>>]

(* the id setTimeout returns: one that no pending timeout has *)
FreshId(d) ==
    CHOOSE n \in 1..(Len(d.pending) + 1) :
        \A j \in 1..Len(d.pending) : d.pending[j].id # n

clearTimeout(d, id) ==
    [d EXCEPT !.pending = SelectSeq(@, LAMBDA e : e.id # id)]

(* debounced that sets the new timeout without clearing the previous one *)
debounced_NoClear(d, wait, args) ==
    LET id == FreshId(d)
    IN  [d EXCEPT !.timeoutId = id,
                  !.pending = Append(@, [id |-> id, args |-> args,
                                         t |-> wait])]

(* debounced(...args) (lines 17-28) *)
debounced(d, wait, args) ==
    LET d1 == IF d.timeoutId # Null THEN clearTimeout(d, d.timeoutId) ELSE d
        id == FreshId(d1)
    IN  [d1 EXCEPT !.timeoutId = id,
                   !.pending = Append(@, [id |-> id, args |-> args,
                                          t |-> wait])]

(* cancel that clears the timeout but keeps its id in timeoutId *)
cancel_KeepId(d) ==
    IF d.timeoutId # Null THEN clearTimeout(d, d.timeoutId) ELSE d

(* cancel that forgets the timeout id without clearing the timeout *)
cancel_NoClear(d) ==
    IF d.timeoutId # Null THEN [d EXCEPT !.timeoutId = Null] ELSE d

(* debounced.cancel() (lines 31-36) *)
cancel(d) ==
    IF d.timeoutId # Null
    THEN [clearTimeout(d, d.timeoutId) EXCEPT !.timeoutId = Null]
    ELSE d

(* the timeout at position j fires: after func.apply(this, args) the       *)
(* callback sets timeoutId = null (lines 24-27)                            *)
fired(d, j) ==
    [d EXCEPT !.pending = RemoveAt(@, j), !.timeoutId = Null]

(* AutoSavePlugin whose effect cleanup does not cancel the debounce *)
cleanup_NoCancel(d) == d

(* cleanup of the AutoSavePlugin effect (part_000 lines 107-115): the      *)
(* update listener is removed and the pending save is cancelled            *)
cleanup(d) == cancel(d)

(* ----------------- utils/debounce.js: debounceAdvanced ----------------- *)
(* The closure variables timeoutId and lastCallTime and the timeouts set   *)
(* and not cleared; a timeout remembers the `now` of the call that set it. *)
NoDebounceAdvanced == [timeoutId |-> Null, pending |-> <<>>,
                       lastCallTime |-> 0]

(* leading && timeSinceLastCall > wait (line 70) *)
leadingRuns(d, wait, lead, tnow) == lead /\ tnow - d.lastCallTime > wait

(* debounced(...args) of debounceAdvanced (lines 55-81); execute() of the  *)
(* leading edge sets lastCallTime = now                                    *)
debouncedAdvanced(d, wait, lead, trail, tnow, args) ==
    LET d1 == IF d.timeoutId # Null THEN clearTimeout(d, d.timeoutId) ELSE d
        d2 == IF leadingRuns(d, wait, lead, tnow)
              THEN [d1 EXCEPT !.lastCallTime = tnow] ELSE d1
        id == FreshId(d2)
    IN  IF trail
        THEN [d2 EXCEPT !.timeoutId = id,
                        !.pending = Append(@, [id |-> id, args |-> args,
                                               t |-> wait, now |-> tnow])]
        ELSE d2

(* the timeout at position j fires: execute(), then timeoutId = null       *)
(* (lines 76-79)                                                           *)
firedAdvanced(d, j) ==
    [d EXCEPT !.pending = RemoveAt(@, j),
              !.lastCallTime = d.pending[j].now,
              !.timeoutId = Null]

(* cancel of debounceAdvanced that forgets the id without clearTimeout *)
cancelAdvanced_NoClear(d) ==
    [d EXCEPT !.timeoutId = Null]

(* debounced.cancel() of debounceAdvanced (lines 83-88) *)
cancelAdvanced(d) ==
    IF d.timeoutId # Null
    THEN [clearTimeout(d, d.timeoutId) EXCEPT !.timeoutId = Null]
    ELSE d

(* history of the calls of saveContent made by the save effect and by     *)
(* saveNow: the closure's post, the request, whether an attempt was in     *)
(* progress and for which request                                          *)
InFlight == IF insts = <<>> THEN None ELSE insts[1].req

Submit(p, c) == subs' = Append(subs, [post |-> p, req |-> c,
                                      during |-> InFlight,
                                      queued |-> isSaving])

AppInit ==
    /\ postId = NoPost
    /\ content = None
    /\ dbValue = None
    /\ dbTimer = NoTimer
    /\ debouncedContent = None
    /\ status = "idle"
    /\ error = NoError
    /\ lastSaved = 0
    /\ retryCount = 0
    /\ isMounted = TRUE
    /\ saveQueue = <<>>
    /\ isSaving = FALSE
    /\ sinceFail = -1
    /\ insts = <<>>
    /\ timers = <<>>
    /\ calls = <<>>
    /\ subs = <<>>
    /\ nEdits = 0
    /\ nOps = 0
    /\ nFails = 0
    /\ nSwitches = 0
    /\ debouncedSave = NoDebounce
    /\ lastSavedState = Null
    /\ dlog = <<>>
    /\ dropped = {}
    /\ sinceEdit = -1
    /\ posts = <<>>
    /\ currentPost = NoCurrent
    /\ isLoading = FALSE
    /\ storeError = NoError
    /\ server = [p \in Posts |-> IF p \in StoredPosts THEN "draft"
                                                       ELSE "none"]
    /\ reqs = {}
    /\ deleted = {}
    /\ nActs = 0

(* the page right after its construction; the debounce functions on their  *)
(* own are not in use                                                      *)
Init ==
    /\ AppInit
    /\ leading = FALSE
    /\ trailing = TRUE
    /\ now = StartTime
    /\ deb = NoDebounce
    /\ debAdv = NoDebounceAdvanced
    /\ plog = <<>>
    /\ nCalls = 0
    /\ nCancels = 0

(* handleContentChange / handleTitleChange: the user changes the current   *)
(* post; the page re-renders with a freshly tagged content object.         *)
Edit ==
    /\ isMounted
    /\ postId # NoPost
    /\ nOps < MaxOps
    /\ nOps' = nOps + 1
    /\ nEdits' = nEdits + 1
    /\ content' = [postId |-> postId, val |-> nEdits + 1]
    /\ useDebounce(content, content')
    /\ UNCHANGED <<postId, debouncedContent, isMounted, hookVars, subs,
                   nFails, nSwitches, editorVars>>
    /\ UNCHANGED <<primVars, storeVars>>

(* The quiet period elapsed: debouncedContent changes and the save effect  *)
(* (lines 113-120) runs.                                                   *)
DebounceFire ==
    /\ isMounted
    /\ dbTimer = 0
    /\ dbTimer' = NoTimer
    /\ debouncedContent' = dbValue
    /\ IF dbValue # debouncedContent /\ dbValue # None /\ postId # NoPost
       THEN /\ Commit(saveContent(Hook, postId, dbValue))
            /\ Submit(postId, dbValue)
       ELSE UNCHANGED <<hookVars, subs>>
    /\ UNCHANGED <<postId, content, dbValue, isMounted,
                   nEdits, nOps, nFails, nSwitches, editorVars>>
    /\ UNCHANGED <<primVars, storeVars>>

(* saveNow (lines 136-140) *)
SaveNow ==
    /\ isMounted
    /\ nOps < MaxOps
    /\ content # None /\ postId # NoPost
    /\ nOps' = nOps + 1
    /\ Commit(saveContent(Hook, postId, content))
    /\ Submit(postId, content)
    /\ UNCHANGED <<postId, content, dbValue, dbTimer, debouncedContent,
                   isMounted, nEdits, nFails, nSwitches, editorVars>>
    /\ UNCHANGED <<primVars, storeVars>>

(* registerUpdateListener callback (part_000 lines 98-105): the editor     *)
(* state changed; the new state is handed to the debounced save            *)
EditorUpdate ==
    /\ isMounted
    /\ postId # NoPost
    /\ nOps < MaxOps
    /\ nOps' = nOps + 1
    /\ nEdits' = nEdits + 1
    /\ debouncedSave' = debounced(debouncedSave, saveDelay, nEdits + 1)
    /\ dlog' = Append(dlog, [ev |-> "call", arg |-> nEdits + 1])
    /\ sinceEdit' = 0
    /\ UNCHANGED <<postId, content, dbValue, dbTimer, debouncedContent,
                   isMounted, hookVars, subs, nFails, nSwitches,
                   lastSavedState, dropped>>
    /\ UNCHANGED <<primVars, storeVars>>

(* a timeout of the debounce fires: the function given to debounce         *)
(* (part_000 lines 37-79) runs with the editor state of the call that set  *)
(* the timeout and hands the content to handleContentChange                *)
AutoSaveFire(j) ==
    /\ isMounted
    /\ debouncedSave.pending[j].t = 0
    /\ LET a == debouncedSave.pending[j].args
           deliver == lastSavedState # a /\ postId # NoPost
       IN  /\ debouncedSave' = fired(debouncedSave, j)
           /\ dlog' = Append(dlog, [ev |-> "exec", arg |-> a])
           /\ content' = IF deliver THEN [postId |-> postId, val |-> a]
                                    ELSE content
           /\ useDebounce(content, content')
           /\ lastSavedState' = IF lastSavedState # a THEN a
                                                      ELSE lastSavedState
    /\ UNCHANGED <<postId, debouncedContent, isMounted, hookVars, subs,
                   nEdits, nOps, nFails, nSwitches, dropped, sinceEdit>>
    /\ UNCHANGED <<primVars, storeVars>>

(* <Editor key={currentPost.id}>: a change of the current post unmounts    *)
(* the editor of the previous post (the plugin's cleanup runs) and mounts  *)
(* a new one, whose plugin has a new debounce instance and a null          *)
(* lastSavedState.  Timeouts the old instance did not clear stay pending.  *)
EditorRemount ==
    IF postId # NoPost
    THEN /\ dropped' = dropped \cup
                {debouncedSave.pending[j].args :
                     j \in 1..Len(debouncedSave.pending)}
         /\ debouncedSave' = [cleanup(debouncedSave) EXCEPT
                                  !.timeoutId = Null]
         /\ lastSavedState' = Null
         /\ dlog' = Append(dlog, [ev |-> "cancel", arg |-> 0])
         /\ sinceEdit' = -1
    ELSE UNCHANGED editorVars

(* change of the current post without the queue-clearing effect of lines   *)
(* 123-126                                                                 *)
SwitchPost_NoClear(q) ==
    /\ isMounted
    /\ q # postId
    /\ nOps < MaxOps
    /\ nOps' = nOps + 1
    /\ nSwitches' = nSwitches + 1
    /\ postId' = q
    /\ IF debouncedContent # None /\ q # NoPost
       THEN /\ Commit(saveContent(Hook, q, debouncedContent))
            /\ Submit(q, debouncedContent)
       ELSE UNCHANGED <<hookVars, subs>>
    /\ content' = None
    /\ useDebounce(content, None)
    /\ EditorRemount
    /\ UNCHANGED <<debouncedContent, isMounted, nEdits, nFails>>
    /\ UNCHANGED <<primVars, storeVars>>

(* currentPost changes to q.  The effects run in declaration order: the    *)
(* save effect with the new closure and the old debounced value, the       *)
(* queue-clearing effect (lines 123-126), then the page's effect that      *)
(* resets the modified flag, after which content is null.                  *)
SwitchPost(q) ==
    /\ isMounted
    /\ q # postId
    /\ nOps < MaxOps
    /\ nOps' = nOps + 1
    /\ nSwitches' = nSwitches + 1
    /\ postId' = q
    /\ LET s1 == IF debouncedContent # None /\ q # NoPost
                 THEN saveContent(Hook, q, debouncedContent)
                 ELSE Hook
       IN  /\ Commit([s1 EXCEPT !.saveQueue = <<>>])
           /\ IF debouncedContent # None /\ q # NoPost
              THEN Submit(q, debouncedContent)
              ELSE UNCHANGED subs
    /\ content' = None
    /\ useDebounce(content, None)
    /\ EditorRemount
    /\ UNCHANGED <<debouncedContent, isMounted, nEdits, nFails>>
    /\ UNCHANGED <<primVars, storeVars>>

(* the backoff wait of line 62 is over: the call of line 69 is issued *)
BackoffDone(i) ==
    /\ insts[i].phase = "backoff"
    /\ insts[i].t = 0
    /\ LET s1 == [Hook EXCEPT !.insts = RemoveAt(@, i)]
       IN  Commit(IssueCall(s1, insts[i].post, insts[i].req))
    /\ UNCHANGED <<postId, content, dbValue, dbTimer, debouncedContent,
                   isMounted, subs, nEdits, nOps, nFails, nSwitches,
                   editorVars>>
    /\ UNCHANGED <<primVars, storeVars>>

(* the persistence call returns *)
RespondOk(i) ==
    /\ insts[i].phase = "call"
    /\ Commit(finallyBlock(onSuccess(Hook, i), i))
    /\ UNCHANGED <<postId, content, dbValue, dbTimer, debouncedContent,
                   isMounted, subs, nEdits, nOps, nFails, nSwitches,
                   editorVars>>
    /\ UNCHANGED <<primVars, storeVars>>

RespondFail(i) ==
    /\ insts[i].phase = "call"
    /\ nFails < MaxFails
    /\ nFails' = nFails + 1
    /\ Commit(finallyBlock(onFailure(Hook, i), i))
    /\ UNCHANGED <<postId, content, dbValue, dbTimer, debouncedContent,
                   isMounted, subs, nEdits, nOps, nSwitches, editorVars>>
    /\ UNCHANGED <<primVars, storeVars>>

(* setTimeout(() => saveContent(contentToSave), 1000) fires *)
RetryFire(j) ==
    /\ timers[j].t = 0
    /\ LET s1 == [Hook EXCEPT !.timers = RemoveAt(@, j)]
       IN  Commit(saveContent(s1, timers[j].post, timers[j].req))
    /\ UNCHANGED <<postId, content, dbValue, dbTimer, debouncedContent,
                   isMounted, subs, nEdits, nOps, nFails, nSwitches,
                   editorVars>>
    /\ UNCHANGED <<primVars, storeVars>>

(* the page goes away: cleanup of lines 129-133; useDebounce clears its    *)
(* timer; the editor, if one is shown, unmounts with it                    *)
Unmount ==
    /\ isMounted
    /\ isMounted' = FALSE
    /\ dbTimer' = NoTimer
    /\ IF postId # NoPost
       THEN /\ debouncedSave' = cleanup(debouncedSave)
            /\ dlog' = Append(dlog, [ev |-> "cancel", arg |-> 0])
       ELSE UNCHANGED <<debouncedSave, dlog>>
    /\ UNCHANGED <<postId, content, dbValue, debouncedContent, hookVars,
                   subs, nEdits, nOps, nFails, nSwitches, lastSavedState,
                   dropped, sinceEdit>>
    /\ UNCHANGED <<primVars, storeVars>>

(* 1000 ms pass; a timer that is due fires before time advances further *)
Due ==
    \/ dbTimer = 0
    \/ \E i \in 1..Len(insts) : insts[i].t = 0
    \/ \E j \in 1..Len(timers) : timers[j].t = 0
    \/ \E j \in 1..Len(debouncedSave.pending) :
           debouncedSave.pending[j].t = 0

Running ==
    \/ dbTimer > 0
    \/ \E i \in 1..Len(insts) : insts[i].t > 0
    \/ \E j \in 1..Len(timers) : timers[j].t > 0
    \/ \E j \in 1..Len(debouncedSave.pending) :
           debouncedSave.pending[j].t > 0

Tick ==
    /\ ~Due
    /\ Running
    /\ dbTimer' = IF dbTimer > 0 THEN dbTimer - 1 ELSE dbTimer
    /\ insts' = [i \in 1..Len(insts) |->
                    IF insts[i].t > 0
                    THEN [insts[i] EXCEPT !.t = @ - 1] ELSE insts[i]]
    /\ timers' = [j \in 1..Len(timers) |-> [timers[j] EXCEPT !.t = @ - 1]]
    /\ sinceFail' = IF sinceFail >= 0 THEN sinceFail + 1 ELSE sinceFail
    /\ debouncedSave' = [debouncedSave EXCEPT !.pending =
           [j \in 1..Len(@) |-> [@[j] EXCEPT !.t = @ - 1]]]
    /\ UNCHANGED <<postId, content, dbValue, debouncedContent, isMounted,
                   status, error, lastSaved, retryCount, saveQueue, isSaving,
                   calls, subs, nEdits, nOps, nFails, nSwitches,
                   lastSavedState, dlog, dropped>>
    /\ sinceEdit' = IF sinceEdit >= 0 /\ sinceEdit < MaxSince
                    THEN sinceEdit + 1 ELSE sinceEdit
    /\ UNCHANGED <<primVars, storeVars>>

Switch   == \E q \in Posts \cup {NoPost} : SwitchPost(q)
Backoff  == \E i \in 1..Len(insts) : BackoffDone(i)
Resolve  == \E i \in 1..Len(insts) : RespondOk(i)
Reject   == \E i \in 1..Len(insts) : RespondFail(i)
Retry    == \E j \in 1..Len(timers) : RetryFire(j)

(* the hook while its page stays mounted *)
Next ==
    \/ Edit
    \/ DebounceFire
    \/ SaveNow
    \/ Switch
    \/ Backoff
    \/ Resolve
    \/ Reject
    \/ Retry
    \/ Tick

Spec == Init /\ [][Next]_vars

(* the mounted hook when every persistence call returns at some time and   *)
(* every timer that is due fires; the user acts MaxBusy times at most      *)
UserActs ==
    /\ nOps < MaxBusy
    /\ (Edit \/ SaveNow \/ Switch)

NextFair ==
    \/ UserActs
    \/ DebounceFire
    \/ Backoff
    \/ Resolve
    \/ Reject
    \/ Retry
    \/ Tick

SpecFair ==
    /\ Init
    /\ [][NextFair]_vars
    /\ WF_vars(Resolve \/ Reject)
    /\ WF_vars(Backoff)
    /\ WF_vars(Retry)
    /\ WF_vars(DebounceFire)
    /\ WF_vars(Tick)

(* the whole life of the hook, the unmount of its page included *)
NextLifecycle ==
    \/ Next
    \/ Unmount

SpecLifecycle == Init /\ [][NextLifecycle]_vars

AutoSave == \E j \in 1..Len(debouncedSave.pending) : AutoSaveFire(j)

(* the page with the Lexical editor and its AutoSavePlugin: the user types *)
(* in the editor and changes the current post (no title input, no manual   *)
(* save)                                                                   *)
NextEditor ==
    \/ EditorUpdate
    \/ AutoSave
    \/ DebounceFire
    \/ Switch
    \/ Backoff
    \/ Resolve
    \/ Reject
    \/ Retry
    \/ Tick

SpecEditor == Init /\ [][NextEditor]_vars

(* --------- debounce and debounceAdvanced on their own -------------- *)
(* One instance of each, created at the same time with the same wait, is   *)
(* given the same calls and cancels; func records its execution.           *)
InitPrimitives ==
    /\ AppInit
    /\ leading \in BOOLEAN
    /\ trailing \in BOOLEAN
    /\ now = StartTime
    /\ deb = NoDebounce
    /\ debAdv = NoDebounceAdvanced
    /\ plog = <<>>
    /\ nCalls = 0
    /\ nCancels = 0

(* both debounced functions are called with a new argument *)
Invoke ==
    /\ nCalls < MaxCalls
    /\ nCalls' = nCalls + 1
    /\ deb' = debounced(deb, primWait, nCalls + 1)
    /\ debAdv' = debouncedAdvanced(debAdv, primWait, leading, trailing,
                                   now, nCalls + 1)
    /\ plog' = plog \o <<[ev |-> "call", arg |-> nCalls + 1, at |-> now]>>
                    \o IF leadingRuns(debAdv, primWait, leading, now)
                       THEN <<[ev |-> "execAdvanced", arg |-> nCalls + 1,
                               at |-> now]>>
                       ELSE <<>>
    /\ UNCHANGED <<leading, trailing, now, nCancels, appVars>>

(* cancel() of both *)
Cancel ==
    /\ nCancels < MaxCancels
    /\ nCancels' = nCancels + 1
    /\ deb' = cancel(deb)
    /\ debAdv' = cancelAdvanced(debAdv)
    /\ plog' = Append(plog, [ev |-> "cancel", arg |-> 0, at |-> now])
    /\ UNCHANGED <<leading, trailing, now, nCalls, appVars>>

(* a timeout of the debounce instance fires: func.apply(this, args) *)
FireDebounce ==
    \E j \in 1..Len(deb.pending) :
        /\ deb.pending[j].t = 0
        /\ deb' = fired(deb, j)
        /\ plog' = Append(plog, [ev |-> "exec", arg |-> deb.pending[j].args,
                                 at |-> now])
        /\ UNCHANGED <<leading, trailing, now, debAdv, nCalls, nCancels,
                       appVars>>

(* a timeout of the debounceAdvanced instance fires: execute() *)
FireAdvanced ==
    \E j \in 1..Len(debAdv.pending) :
        /\ debAdv.pending[j].t = 0
        /\ debAdv' = firedAdvanced(debAdv, j)
        /\ plog' = Append(plog, [ev |-> "execAdvanced",
                                 arg |-> debAdv.pending[j].args, at |-> now])
        /\ UNCHANGED <<leading, trailing, now, deb, nCalls, nCancels,
                       appVars>>

(* one unit of time passes; a timeout that is due fires first *)
Pass ==
    /\ now < StartTime + MaxTime
    /\ \A j \in 1..Len(deb.pending) : deb.pending[j].t > 0
    /\ \A j \in 1..Len(debAdv.pending) : debAdv.pending[j].t > 0
    /\ now' = now + 1
    /\ deb' = [deb EXCEPT !.pending =
           [j \in 1..Len(@) |-> [@[j] EXCEPT !.t = @ - 1]]]
    /\ debAdv' = [debAdv EXCEPT !.pending =
           [j \in 1..Len(@) |-> [@[j] EXCEPT !.t = @ - 1]]]
    /\ UNCHANGED <<leading, trailing, plog, nCalls, nCancels, appVars>>

NextPrimitives ==
    \/ Invoke
    \/ Cancel
    \/ FireDebounce
    \/ FireAdvanced
    \/ Pass

SpecPrimitives == InitPrimitives /\ [][NextPrimitives]_vars

(* --------------- store/useStore.js: the posts actions ------------------ *)
(* An action of the store is split at its await: the request is sent, the  *)
(* back end answers it, and the answer resumes the action.  Requests are   *)
(* independent HTTP exchanges: the back end answers them in any order and  *)
(* the answers come back in any order.                                     *)
Store == [posts |-> posts, currentPost |-> currentPost,
          isLoading |-> isLoading, error |-> storeError]

CommitStore(st) ==
    /\ posts' = st.posts
    /\ currentPost' = st.currentPost
    /\ isLoading' = st.isLoading
    /\ storeError' = st.error

(* posts.map(p => p.id === post.id ? post : p) *)
replacePost(ps, post) ==
    [k \in 1..Len(ps) |-> IF ps[k].id = post.id THEN post ELSE ps[k]]

listed(ps) == {ps[k].id : k \in 1..Len(ps)}

(* set({ isLoading: true, error: null }) *)
setLoading(st) == [st EXCEPT !.isLoading = TRUE, !.error = NoError]

(* fetchPosts after the await (line 102) *)
fetchPosts(st, data) == [st EXCEPT !.posts = data, !.isLoading = FALSE]

(* createPost after the await (lines 122-126) *)
createPost(st, newPost) ==
    [st EXCEPT !.posts = <<newPost>> \o @, !.currentPost = newPost,
               !.isLoading = FALSE]

(* fetchPostById after the await (lines 145-147) *)
fetchPostById(st, post) == [st EXCEPT !.posts = replacePost(@, post)]

(* setCurrentPost (line 163) *)
setCurrentPost(st, post) == [st EXCEPT !.currentPost = post]

(* handlePostClick after its await (PostList.jsx lines 55-61) *)
handlePostClick(st, post) == setCurrentPost(fetchPostById(st, post), post)

(* publishPost after the await (lines 193-199) *)
publishPost(st, p, publishedPost) ==
    [st EXCEPT !.currentPost = IF @.id = p THEN publishedPost ELSE @,
               !.posts = replacePost(@, publishedPost),
               !.isLoading = FALSE]

(* deletePost after the await (lines 219-223) *)
deletePost(st, p) ==
    [st EXCEPT !.posts = SelectSeq(@, LAMBDA q : q.id # p),
               !.currentPost = IF @.id = p THEN NoCurrent ELSE @,
               !.isLoading = FALSE]

(* catch block that does not put isLoading back *)
actionFailed_StillLoading(st, op) ==
    IF op = "fetchPostById"
    THEN st
    ELSE [st EXCEPT !.error = "Failed: " \o op]

(* the catch block of the action op: fetchPostById only logs and returns   *)
(* null, the others set error and isLoading                                *)
actionFailed(st, op) ==
    IF op = "fetchPostById"
    THEN st
    ELSE [st EXCEPT !.error = "Failed: " \o op, !.isLoading = FALSE]

(* what the back end returns for GET /api/posts *)
serverList ==
    LET ids == <<"A", "B">>
        xs  == SelectSeq(ids, LAMBDA p : server[p] \in {"draft", "published"})
    IN  [k \in 1..Len(xs) |-> [id |-> xs[k], status |-> server[xs[k]]]]

Send(op, p) ==
    /\ nActs < MaxActs
    /\ nActs' = nActs + 1
    /\ reqs' = reqs \cup {[n |-> nActs + 1, op |-> op, post |-> p,
                           phase |-> "sent", ok |-> FALSE, data |-> <<>>]}

(* PostList mounts or refreshes: fetchPosts() up to its await *)
FetchPosts ==
    /\ Send("fetchPosts", NoPost)
    /\ CommitStore(setLoading(Store))
    /\ UNCHANGED <<server, deleted, pageVars, primVars>>

(* handleNewPost: createPost() up to its await *)
NewPost ==
    /\ Send("createPost", NoPost)
    /\ CommitStore(setLoading(Store))
    /\ UNCHANGED <<server, deleted, pageVars, primVars>>

(* handlePostClick(post) on a post of the list, up to the await inside     *)
(* fetchPostById: nothing of the store is set before it                    *)
PostClick ==
    \E p \in listed(posts) :
        /\ Send("fetchPostById", p)
        /\ UNCHANGED <<posts, currentPost, isLoading, storeError, server,
                       deleted, pageVars, primVars>>

(* handleDeletePost on a post of the list (confirmed): deletePost(postId)  *)
(* up to its await                                                         *)
DeletePost ==
    \E p \in listed(posts) :
        /\ Send("deletePost", p)
        /\ CommitStore(setLoading(Store))
        /\ UNCHANGED <<server, deleted, pageVars, primVars>>

(* handlePublish of the editor page: publishPost(currentPost.id) up to its *)
(* await                                                                   *)
PublishPost ==
    /\ currentPost # NoCurrent
    /\ Send("publishPost", currentPost.id)
    /\ CommitStore(setLoading(Store))
    /\ UNCHANGED <<server, deleted, pageVars, primVars>>

Answer(r, ok, data) ==
    reqs' = (reqs \ {r}) \cup {[r EXCEPT !.phase = "answered", !.ok = ok,
                                         !.data = data]}

(* the back end carries out a request; a new post gets an id that was     *)
(* never in use                                                            *)
ServeOk ==
    \E r \in reqs :
        /\ r.phase = "sent"
        /\ CASE r.op = "fetchPosts" ->
                  /\ Answer(r, TRUE, serverList)
                  /\ UNCHANGED server
             [] r.op = "createPost" ->
                  \E p \in Posts :
                      /\ server[p] = "none"
                      /\ server' = [server EXCEPT ![p] = "draft"]
                      /\ Answer(r, TRUE, <<[id |-> p, status |-> "draft"]>>)
             [] r.op = "fetchPostById" ->
                  /\ server[r.post] \in {"draft", "published"}
                  /\ Answer(r, TRUE, <<[id |-> r.post,
                                        status |-> server[r.post]]>>)
                  /\ UNCHANGED server
             [] r.op = "publishPost" ->
                  /\ server[r.post] \in {"draft", "published"}
                  /\ server' = [server EXCEPT ![r.post] = "published"]
                  /\ Answer(r, TRUE, <<[id |-> r.post,
                                        status |-> "published"]>>)
             [] r.op = "deletePost" ->
                  /\ server[r.post] \in {"draft", "published"}
                  /\ server' = [server EXCEPT ![r.post] = "deleted"]
                  /\ Answer(r, TRUE, <<>>)
        /\ UNCHANGED <<posts, currentPost, isLoading, storeError, deleted,
                       nActs, pageVars, primVars>>

(* the request fails: the post is not there (404), or the network or the   *)
(* back end gives an error; the back end changes nothing                   *)
ServeError ==
    \E r \in reqs :
        /\ r.phase = "sent"
        /\ Answer(r, FALSE, <<>>)
        /\ UNCHANGED <<posts, currentPost, isLoading, storeError, server,
                       deleted, nActs, pageVars, primVars>>

(* the awaited call returns and the action runs to its end *)
Resume ==
    \E r \in reqs :
        /\ r.phase = "answered"
        /\ r.ok
        /\ reqs' = reqs \ {r}
        /\ CommitStore(
             CASE r.op = "fetchPosts" -> fetchPosts(Store, r.data)
               [] r.op = "createPost" -> createPost(Store, r.data[1])
               [] r.op = "fetchPostById" -> handlePostClick(Store, r.data[1])
               [] r.op = "publishPost" ->
                      publishPost(Store, r.post, r.data[1])
               [] r.op = "deletePost" -> deletePost(Store, r.post))
        /\ deleted' = IF r.op = "deletePost"
                      THEN deleted \cup {r.post} ELSE deleted
        /\ UNCHANGED <<server, nActs, pageVars, primVars>>

(* the awaited call throws and the action runs its catch block *)
Throw ==
    \E r \in reqs :
        /\ r.phase = "answered"
        /\ ~r.ok
        /\ reqs' = reqs \ {r}
        /\ CommitStore(actionFailed(Store, r.op))
        /\ UNCHANGED <<server, deleted, nActs, pageVars, primVars>>

NextStore ==
    \/ FetchPosts
    \/ NewPost
    \/ PostClick
    \/ DeletePost
    \/ PublishPost
    \/ ServeOk
    \/ ServeError
    \/ Resume
    \/ Throw

SpecStore == Init /\ [][NextStore]_vars


(* ===================================================================== *)
(* Properties                                                            *)
(* ===================================================================== *)

(* nothing of the hook is running or scheduled *)
Quiescent == insts = <<>> /\ timers = <<>> /\ saveQueue = <<>>

Pending == {k \in 1..Len(calls) : calls[k].outcome = "pending"}
OkCalls == {k \in 1..Len(calls) : calls[k].outcome = "ok"}
Max(S)  == CHOOSE x \in S : \A y \in S : y <= x

(* C1: every postsAPI.update(p, body) is issued for a content object whose *)
(* postId tag equals p; content of one post is never written to another.   *)
C1_TagMatchesTarget ==
    \A k \in 1..Len(calls) : calls[k].tag = calls[k].post

(* a content tagged for another post reached the validation of a closure   *)
(* that also issued calls for its own post                                 *)
C1_Witness ==
    \E n \in 1..Len(subs), k \in 1..Len(calls) :
        /\ subs[n].req.postId # subs[n].post
        /\ ~subs[n].queued
        /\ calls[k].post = subs[n].post

(* C2: for a single document, once submissions have stopped and every      *)
(* attempt and timer is finished, the most recent successful persistence   *)
(* call carries the payload of the last submitted request (no request      *)
(* having exhausted its retries).                                          *)
C2_LastSubmittedPersisted ==
    ( /\ isMounted /\ nSwitches = 1
      /\ Quiescent /\ dbTimer = NoTimer
      /\ nFails <= maxRetries
      /\ subs # <<>> /\ OkCalls # {} )
    => calls[Max(OkCalls)].body = subs[Len(subs)].req.val

(* C3: a request for the current post B submitted while a save of the      *)
(* previous post A was in flight has been sent to the persistence layer    *)
(* for B (itself or a newer request of B) once everything has finished.    *)
C3_NewDocRequestSent ==
    (isMounted /\ Quiescent /\ dbTimer = NoTimer)
    => \A n \in 1..Len(subs) :
          ( /\ subs[n].queued
            /\ subs[n].post = postId
            /\ subs[n].req.postId = postId
            /\ subs[n].during.postId # postId )
          => \E k \in 1..Len(calls) :
                /\ calls[k].post = postId
                /\ calls[k].body >= subs[n].req.val

(* C4: the completion of a save that belongs to a post other than the      *)
(* current one changes neither status, error nor lastSaved and takes       *)
(* nothing out of the queue.                                               *)
C4_ForeignCompletionIsolated ==
    [][ \A i \in 1..Len(insts) :
          ( /\ insts[i].phase = "call"
            /\ postId \in Posts
            /\ insts[i].post # postId
            /\ postId' = postId
            /\ calls'[insts[i].call].outcome # "pending" )
          => ( /\ status' = status
               /\ error' = error
               /\ lastSaved' = lastSaved
               /\ saveQueue' = saveQueue ) ]_vars

(* C5: a persistence call is only ever issued for the post that is         *)
(* current at that moment; nothing is started for a post that was left.    *)
C5_NoAttemptForLeftPost ==
    [][ (Len(calls') > Len(calls) /\ postId' \in Posts)
        => calls'[Len(calls')].post = postId' ]_vars

(* C6: a failed call with retries remaining is followed, as the next       *)
(* persistence call, by a call with the same request.                      *)
C6_RetryBeforeQueued ==
    isMounted =>
      \A k \in 1..(Len(calls) - 1) :
          calls[k].outcome = "fail"
          => ( /\ calls[k + 1].body = calls[k].body
               /\ calls[k + 1].post = calls[k].post )

(* C7: at most one activation of saveContent is inside its try block and   *)
(* at most one persistence call is awaiting its response.                  *)
C7_OneInFlight ==
    /\ Len(insts) <= 1
    /\ Cardinality(Pending) <= 1
    /\ isSaving <=> (Len(insts) = 1)

(* saveContent was called during the backoff wait of an attempt *)
C7_Witness ==
    /\ Len(insts) = 1
    /\ insts[1].phase = "backoff"
    /\ saveQueue # <<>>
    /\ \E n \in 1..Len(subs) : subs[n].queued

(* C8: distinct requests R1, R2, R3 for one post, R2 and R3 submitted      *)
(* while R1 is executing, no call failing: the calls are R1 then R3.       *)
C8_Case ==
    /\ Len(subs) = 3
    /\ nFails = 0
    /\ nSwitches = 1
    /\ \A n \in 1..3 : subs[n].post = postId /\ subs[n].req.postId = postId
    /\ subs[1].req # subs[2].req /\ subs[2].req # subs[3].req
    /\ subs[1].req # subs[3].req
    /\ ~subs[1].queued
    /\ subs[2].queued /\ subs[2].during = subs[1].req
    /\ subs[3].queued /\ subs[3].during = subs[1].req

C8_LastWriteWins ==
    C8_Case =>
        /\ Len(calls) <= 2
        /\ calls[1].body = subs[1].req.val
        /\ Len(calls) = 2 => calls[2].body = subs[3].req.val
        /\ \A k \in 1..Len(calls) : calls[k].post = postId
        /\ Quiescent => Len(calls) = 2

C8_Witness ==
    /\ C8_Case
    /\ Quiescent
    /\ Len(calls) = 2
    /\ calls[2].outcome = "ok"

(* C9 as stated: the queue never holds more than one request. *)
C9_QueueAtMostOne == Len(saveQueue) <= 1

(* C9: when an attempt finishes with requests queued, the queue is emptied *)
(* and the only request taken from it is the most recently queued one.     *)
C9_DrainTakesLatest ==
    [][ \A i \in 1..Len(insts) :
          ( /\ insts[i].phase = "call"
            /\ calls'[insts[i].call].outcome # "pending"
            /\ saveQueue # <<>> )
          => LET c == saveQueue[Len(saveQueue)]
             IN  /\ saveQueue' = <<>>
                 /\ Len(insts') <= 1
                 /\ insts' # <<>> => insts'[1].req = c
                 /\ c.postId = insts[i].post => insts' # <<>> ]_vars

(* two requests were queued behind the same call and the queue was drained *)
C9_Witness ==
    \E n \in 1..(Len(subs) - 1) :
        /\ subs[n].queued /\ subs[n + 1].queued
        /\ subs[n].during = subs[n + 1].during
        /\ subs[n].req # subs[n + 1].req
        /\ \E k \in 1..Len(calls) : calls[k].body = subs[n + 1].req.val
        /\ \A k \in 1..Len(calls) : calls[k].body # subs[n].req.val
        /\ saveQueue = <<>>

(* C10: a single request whose calls all fail ends with status error after *)
(* exactly maxRetries + 1 = 4 calls; afterwards nothing is running or      *)
(* scheduled.                                                              *)
C10_Case == Len(subs) = 1 /\ isMounted /\ OkCalls = {}

C10_Exhaustion ==
    C10_Case =>
        /\ Len(calls) <= maxRetries + 1
        /\ status = "error" => Len(calls) = 4
        /\ (Len(calls) = 4 /\ Pending = {})
               => (status = "error" /\ Quiescent /\ ~isSaving)
        /\ (Quiescent /\ ~isSaving /\ calls # <<>>) => Len(calls) = 4

C10_Witness ==
    /\ C10_Case
    /\ Len(calls) = 4
    /\ status = "error"
    /\ Quiescent

(* a single request of one post, of whose calls at most two fail *)
C11_Case == Len(subs) = 1 /\ isMounted /\ nSwitches = 1 /\ nFails <= 2

(* C11: a request whose call fails twice and then succeeds ends with       *)
(* status saved after exactly three calls, and the wait between a failure  *)
(* and retry n is 2^(n-1) s: 1 s before the second call, 2 s before the    *)
(* third.                                                                  *)
C11_BackoffSchedule ==
    [][ C11_Case' =>
          /\ Len(calls') <= 3
          /\ (nFails' = 2 /\ Len(calls') = 3 /\ calls'[3].outcome = "ok")
                => status' = "saved"
          /\ (Len(calls') = Len(calls) + 1 /\ Len(calls) >= 1)
                => sinceFail = backoffDelay(Len(calls) - 1) ]_vars

(* the persistence calls made with the payload of request c *)
CallsOf(c) == {k \in 1..Len(calls) : calls[k].body = c.val}

(* C12: for every request (submitted once), the number of persistence      *)
(* calls made with its payload never exceeds maxRetries + 1 = 4, whatever  *)
(* other requests are submitted, queued or completed in between.           *)
C12_AttemptsPerRequest ==
    \A n \in 1..Len(subs) :
        Cardinality({m \in 1..Len(subs) : subs[m].req = subs[n].req}) = 1
        => Cardinality(CallsOf(subs[n].req)) <= maxRetries + 1

(* C13: a request submitted after the previous one ended by success or by  *)
(* exhaustion, nothing executing, starts with a fresh retry state: its     *)
(* first call is issued at once, without backoff wait, with the attempt    *)
(* count at zero (three retries ahead); an exhaustion blocks nothing.      *)
C13_FreshRetryState ==
    [][ ( /\ calls # <<>>
          /\ calls[Len(calls)].outcome \in {"ok", "exhausted"}
          /\ insts = <<>>
          /\ Len(subs') = Len(subs) + 1
          /\ subs'[Len(subs')].req.postId = subs'[Len(subs')].post )
        => ( /\ ~isSaving
             /\ retryCount = 0
             /\ Len(calls') = Len(calls) + 1
             /\ calls'[Len(calls')].body = subs'[Len(subs')].req.val
             /\ insts'[1].phase = "call"
             /\ retryCount' = 0 ) ]_vars

(* a request submitted after an exhaustion was sent at once *)
C13_Witness ==
    \E k \in 1..(Len(calls) - 1), n \in 1..Len(subs) :
        /\ calls[k].outcome = "exhausted"
        /\ calls[k + 1].body # calls[k].body
        /\ subs[n].req.val = calls[k + 1].body
        /\ ~subs[n].queued
        /\ status = "saving"

(* C14: whenever the current post changes, the attempt count is zero       *)
(* afterwards, so that the first save of the new post has no backoff wait  *)
(* and all its retries.                                                    *)
C14_SwitchResetsAttempts ==
    [][ (postId' # postId /\ postId' \in Posts) => retryCount' = 0 ]_vars

(* C15: whenever the current post changes, the status shown afterwards is  *)
(* idle, whatever it was before.                                           *)
C15_SwitchForcesIdle ==
    [][ (postId' # postId /\ postId' \in Posts) => status' = "idle" ]_vars

(* C16: immediately after the current post changes the queue is empty, and *)
(* nothing that was queued is executed by the change.                      *)
C16_SwitchClearsQueue ==
    [][ postId' # postId
        => ( /\ saveQueue' = <<>>
             /\ saveQueue # <<>> => calls' = calls /\ insts' = insts ) ]_vars

(* the post changed while a request was queued behind the call in flight,  *)
(* and the queue is empty now                                              *)
C16_Witness ==
    /\ nFails = 0
    /\ Len(insts) = 1
    /\ insts[1].phase = "call"
    /\ insts[1].post # postId
    /\ Cardinality(OkCalls) = 0
    /\ saveQueue = <<>>
    /\ \E n \in 1..Len(subs) :
          /\ subs[n].queued
          /\ subs[n].post = insts[1].post
          /\ subs[n].during = insts[1].req

(* C18: no persistence call is issued for the current post between its     *)
(* load and the first content change by the user (content is null exactly  *)
(* while the page's modified flag is unset).                               *)
C18_NoSaveBeforeEdit ==
    [][ ( /\ Len(calls') = Len(calls) + 1
          /\ calls'[Len(calls')].post = postId' )
        => content' # None ]_vars

(* C17: an editor state that was still waiting in the debounce when the    *)
(* current post changed is never delivered to onContentChange and never    *)
(* sent to the persistence layer, neither for the old nor the new post.    *)
C17_PendingEditDropped ==
    \A v \in dropped :
        /\ \A i \in 1..Len(dlog) :
              ~(dlog[i].ev = "exec" /\ dlog[i].arg = v)
        /\ content.val # v /\ dbValue.val # v /\ debouncedContent.val # v
        /\ \A n \in 1..Len(subs) : subs[n].req.val # v
        /\ \A k \in 1..Len(calls) : calls[k].body # v

(* an edit was dropped by a switch, an edit made afterwards went through   *)
(* the debounce and was sent                                               *)
C17_Witness ==
    \E v \in dropped, k \in 1..Len(calls) :
        /\ calls[k].body > v
        /\ calls[k].post = postId

(* C19: debounce(func, wait): every execution of func directly follows the *)
(* last call of its burst and has that call's arguments, so a burst gives  *)
(* one execution; while a burst is not followed by its execution exactly   *)
(* one timeout is pending, with the arguments of the last call and at most *)
(* wait to go.                                                             *)
C19_OneExecutionLastArgs ==
    /\ \A i \in 1..Len(dlog) :
          dlog[i].ev = "exec"
          => /\ i > 1
             /\ dlog[i - 1] = [ev |-> "call", arg |-> dlog[i].arg]
    /\ (dlog # <<>> /\ dlog[Len(dlog)].ev = "call")
          => /\ Len(debouncedSave.pending) = 1
             /\ debouncedSave.pending[1].args = dlog[Len(dlog)].arg
             /\ debouncedSave.pending[1].t \in 0..saveDelay
             /\ debouncedSave.timeoutId = debouncedSave.pending[1].id

(* a burst of two calls was followed by the execution for the second *)
C19_Witness ==
    \E i \in 3..Len(dlog) :
        /\ dlog[i].ev = "exec"
        /\ dlog[i - 1].ev = "call"
        /\ dlog[i - 2].ev = "call"
        /\ debouncedSave.pending = <<>>

(* C20: after cancel() nothing is pending, and func is never executed for  *)
(* a call that was made before the cancel and not yet executed.            *)
C20_CancelPreventsExecution ==
    /\ \A i \in 1..Len(dlog), j \in 1..Len(dlog), k \in 1..Len(dlog) :
          (i < j /\ j < k /\ dlog[i].ev = "call" /\ dlog[j].ev = "cancel")
          => ~(dlog[k].ev = "exec" /\ dlog[k].arg = dlog[i].arg)
    /\ (dlog # <<>> /\ dlog[Len(dlog)].ev = "cancel")
          => debouncedSave = NoDebounce

(* a call was cancelled before its wait elapsed; a later call was executed *)
C20_Witness ==
    \E i \in 1..Len(dlog) :
        /\ i + 1 < Len(dlog)
        /\ dlog[i].ev = "call"
        /\ dlog[i + 1].ev = "cancel"
        /\ dlog[Len(dlog)].ev = "exec"

(* C21: cancel() is idempotent and safe with nothing pending: a second     *)
(* cancel changes nothing, after a cancel no timeout is left that could    *)
(* execute func, no execution follows a cancel without a new call, and a   *)
(* call after a cancel sets its timeout as on a new instance.              *)
C21_CancelIdempotent ==
    /\ cancel(cancel(deb)) = cancel(deb)
    /\ cancel(deb) = NoDebounce
    /\ deb.timeoutId = Null => cancel(deb) = deb
    /\ debounced(cancel(deb), primWait, 0).pending
           = <<[id |-> 1, args |-> 0, t |-> primWait]>>
    /\ cancelAdvanced(cancelAdvanced(debAdv)) = cancelAdvanced(debAdv)
    /\ cancelAdvanced(debAdv)
           = [NoDebounceAdvanced EXCEPT !.lastCallTime = debAdv.lastCallTime]
    /\ debAdv.timeoutId = Null => cancelAdvanced(debAdv) = debAdv
    /\ \A i \in 1..(Len(plog) - 1) :
          plog[i].ev = "cancel" => plog[i + 1].ev \in {"call", "cancel"}

(* cancel was called twice in a row after a call that was never executed;  *)
(* the next call was executed by both instances                            *)
C21_Witness ==
    \E i \in 1..Len(plog), k \in 1..Len(plog), m \in 1..Len(plog) :
        /\ i + 3 <= Len(plog)
        /\ plog[i].ev = "call"
        /\ plog[i + 1].ev = "cancel"
        /\ plog[i + 2].ev = "cancel"
        /\ plog[i + 3].ev = "call"
        /\ plog[k] = [ev |-> "exec", arg |-> plog[i + 3].arg,
                      at |-> plog[i + 3].at + primWait]
        /\ plog[m] = [ev |-> "execAdvanced", arg |-> plog[i + 3].arg,
                      at |-> plog[i + 3].at + primWait]
        /\ \A n \in 1..Len(plog) :
              plog[n].ev \in {"exec", "execAdvanced"}
              => plog[n].arg # plog[i].arg

(* the time of the call with argument a (arguments are 1, 2, ... in the    *)
(* order of the calls)                                                     *)
CallAt(a) ==
    LET i == CHOOSE i \in 1..Len(plog) :
                 plog[i].ev = "call" /\ plog[i].arg = a
    IN  plog[i].at

(* calls a <= b belong to one burst: each call between them arrived less   *)
(* than wait after the one before                                          *)
SameBurst(a, b) ==
    \A c \in a..(b - 1) : CallAt(c + 1) - CallAt(c) < primWait

ExecsAdvanced == {i \in 1..Len(plog) : plog[i].ev = "execAdvanced"}

(* C22: in every {leading, trailing} configuration debounceAdvanced        *)
(* executes func at most once for a burst of calls (no cancel involved).   *)
C22_OneExecutionPerBurst ==
    nCancels = 0
    => \A i \in ExecsAdvanced, j \in ExecsAdvanced :
          (i < j) => ~SameBurst(plog[i].arg, plog[j].arg)

(* the call at position i of the log executed func at once *)
LeadingExec(i) ==
    /\ i < Len(plog)
    /\ plog[i + 1] = [ev |-> "execAdvanced", arg |-> plog[i].arg,
                      at |-> plog[i].at]

(* C23: with leading enabled a call executes func at once exactly when     *)
(* more than wait has passed since the previous call (the first call has   *)
(* no previous one); a call within wait of the previous one does not.      *)
C23_LeadingEdgeCondition ==
    leading =>
      \A i \in 1..Len(plog) :
          plog[i].ev = "call"
          => ( LeadingExec(i)
               <=> ( \/ plog[i].arg = 1
                     \/ plog[i].at - CallAt(plog[i].arg - 1) > primWait ) )

(* C24: the status is one of the five values; status error comes with an   *)
(* error message, status saved with a timestamp of the last success.       *)
C24_StatusInvariant ==
    /\ status \in {"idle", "saving", "saved", "retrying", "error"}
    /\ status = "error" => error # NoError
    /\ status = "saved" => lastSaved # 0

(* a request was saved, a later one ran out of retries *)
C24_Witness ==
    /\ status = "error"
    /\ error = "Failed to save"
    /\ lastSaved # 0

(* C25: the status changes only along the edges of the state machine:      *)
(* saved, retrying and error are entered only from saving, retrying is     *)
(* left only to saving, saving is entered only from idle, saved, error or  *)
(* retrying.                                                               *)
C25_StatusEdges ==
    [][ status' # status
        => ( /\ status' \in {"saved", "retrying", "error"}
                   => status = "saving"
             /\ status = "retrying" => status' = "saving"
             /\ status' = "saving"
                   => status \in {"idle", "saved", "error", "retrying"} )
      ]_vars

(* a retry has left status retrying and waits for its backoff *)
C25_Witness ==
    /\ status = "saving"
    /\ retryCount > 0
    /\ Len(insts) = 1
    /\ insts[1].phase = "backoff"
    /\ \E k \in 1..Len(calls) : calls[k].outcome = "ok"

(* C26: every failure of the persistence call is handled by the hook: the  *)
(* step in which a call fails leaves the status retrying or error; and a   *)
(* submission made while a save is in flight returns without a call.       *)
C26_FailureHandled ==
    [][ /\ ( /\ isMounted
             /\ \E k \in 1..Len(calls) :
                   /\ calls[k].outcome = "pending"
                   /\ calls'[k].outcome \in {"fail", "exhausted"} )
           => status' \in {"retrying", "error"}
        /\ (isSaving /\ Len(subs') = Len(subs) + 1)
           => (calls' = calls /\ insts' = insts /\ status' = status)
      ]_vars

(* C27: a request whose postId tag differs from the post of the closure    *)
(* that validates it is discarded silently: saveContent returns with the   *)
(* hook's cells as they were, and the step that submits such a request     *)
(* issues no call and leaves status, error, lastSaved, the attempt count,  *)
(* the in-flight flag and the queue unchanged.                             *)
C27_GuardRejectionIsNoOp ==
    [][ /\ \A p \in Posts, c \in {content, dbValue, debouncedContent} :
              (~isSaving /\ c.postId \in Posts /\ c.postId # p)
              => saveContent(Hook, p, c) = Hook
        /\ ( /\ ~isSaving
             /\ Len(subs') = Len(subs) + 1
             /\ subs'[Len(subs')].req.postId # subs'[Len(subs')].post )
           => UNCHANGED <<status, error, lastSaved, retryCount, isSaving,
                          saveQueue, calls, insts, timers>>
      ]_vars

(* post A was saved, the user went to post B, and the save effect's call   *)
(* with A's content was rejected: B shows what A left                      *)
C27_Witness ==
    /\ subs # <<>>
    /\ subs[Len(subs)].req.postId # subs[Len(subs)].post
    /\ ~subs[Len(subs)].queued
    /\ subs[Len(subs)].post = postId
    /\ status = "saved"
    /\ Quiescent /\ ~isSaving

(* C28: no persistence call carries the payload of the last successful     *)
(* call for the same post (auto-save only: the editor is the only source   *)
(* of changes and nothing is saved by hand).                               *)
C28_NoUnchangedSave ==
    \A j \in 1..Len(calls), k \in 1..Len(calls) :
        ( /\ j < k
          /\ calls[j].outcome = "ok"
          /\ calls[j].post = calls[k].post
          /\ \A m \in (j + 1)..(k - 1) :
                ~(calls[m].outcome = "ok" /\ calls[m].post = calls[k].post) )
        => calls[k].body # calls[j].body

(* C29: with no save in flight and no failure being retried, the first     *)
(* persistence call for the latest change made in the editor is issued     *)
(* when 2 s (one debounce delay) have passed since that change.            *)
C29_SavedAfterOneDelay ==
    [][ ( /\ ~isSaving
          /\ retryCount = 0
          /\ sinceEdit >= 0
          /\ Len(calls') = Len(calls) + 1
          /\ calls'[Len(calls')].body = nEdits
          /\ \A k \in 1..Len(calls) : calls[k].body # nEdits )
        => sinceEdit = saveDelay ]_vars

(* C30: while the hook is mounted, every call returning and every timer    *)
(* firing, a status saving or retrying is followed by saved or error.      *)
C30_ProgressEnds ==
    (status \in {"saving", "retrying"}) ~> (status \in {"saved", "error"})

(* a request was saved after its call had failed *)
C30_Witness ==
    /\ status = "saved"
    /\ nFails > 0
    /\ Quiescent /\ ~isSaving
    /\ \E k \in 1..(Len(calls) - 1) :
          /\ calls[k].outcome = "fail"
          /\ calls[k + 1].outcome = "ok"
          /\ calls[k + 1].body = calls[k].body


(* C31: after a failed attempt with retries remaining the status is        *)
(* retrying until the next persistence call is issued: a step in which no  *)
(* new request is submitted takes the status from retrying to saving only  *)
(* by issuing a persistence call.                                          *)
C31_RetryingUntilCall ==
    [][ ( /\ status = "retrying"
          /\ status' = "saving"
          /\ subs' = subs )
        => Len(calls') = Len(calls) + 1 ]_vars


(* C32: while the hook is mounted, the status is saving exactly when the   *)
(* in-flight flag isSaving is set.                                         *)
C32_SavingIffInFlight ==
    isMounted => ((status = "saving") <=> isSaving)

(* a save that followed a failure has ended: the flag is cleared and the   *)
(* status is saved                                                         *)
C32_Witness ==
    /\ isMounted
    /\ nFails > 0
    /\ status = "saved"
    /\ ~isSaving
    /\ \E k \in 1..Len(calls) : calls[k].outcome = "ok"


(* C33: in every reachable state in which no attempt is in progress        *)
(* (isSaving is false) the pending queue is empty.                         *)
C33_NoStrandedRequest ==
    ~isSaving => saveQueue = <<>>

(* a request was queued behind an attempt, the attempt has ended and       *)
(* nothing is in progress any more                                         *)
C33_Witness ==
    /\ ~isSaving
    /\ Quiescent
    /\ \E n \in 1..Len(subs) : subs[n].queued
    /\ \A k \in 1..Len(calls) : calls[k].outcome # "pending"


(* C34: once the hook has unmounted no new persistence call is issued,     *)
(* neither by a retry timer set before the unmount nor by a queue drain.   *)
C34_NoCallAfterUnmount ==
    [][ ~isMounted => Len(calls') = Len(calls) ]_vars


(* the executions of func recorded under the event name e, in order, each  *)
(* with its argument and its time                                          *)
ExecLog(e) ==
    LET xs == SelectSeq(plog, LAMBDA r : r.ev = e)
    IN  [k \in 1..Len(xs) |-> <<xs[k].arg, xs[k].at>>]

(* every call and every cancel reached the two instances in the same       *)
(* position relative to their timeouts: none came after the timeout of one *)
(* instance had run and before the timeout of the other, due at the same   *)
(* time, had                                                               *)
CalledInStep ==
    \A i \in 1..Len(plog) :
        plog[i].ev \in {"call", "cancel"}
        => Cardinality({j \in 1..(i - 1) : plog[j].ev = "exec"})
           = Cardinality({j \in 1..(i - 1) : plog[j].ev = "execAdvanced"})

NothingDue ==
    /\ \A j \in 1..Len(deb.pending) : deb.pending[j].t > 0
    /\ \A j \in 1..Len(debAdv.pending) : debAdv.pending[j].t > 0

(* C35: with the default options {leading: false, trailing: true}          *)
(* debounceAdvanced executes func at the same times with the same          *)
(* arguments as debounce, for every sequence of calls and cancels, and has *)
(* the same timeout waiting.                                               *)
C35_DefaultsLikeDebounce ==
    (~leading /\ trailing /\ CalledInStep /\ NothingDue)
    => /\ ExecLog("execAdvanced") = ExecLog("exec")
       /\ (debAdv.timeoutId = Null) <=> (deb.timeoutId = Null)
       /\ Len(debAdv.pending) = Len(deb.pending)
       /\ \A j \in 1..Len(deb.pending) :
             /\ debAdv.pending[j].args = deb.pending[j].args
             /\ debAdv.pending[j].t = deb.pending[j].t

(* default options: a call was executed, a later call was cancelled and a  *)
(* call after the cancel was executed                                      *)
C35_Witness ==
    /\ ~leading /\ trailing /\ CalledInStep /\ NothingDue
    /\ nCalls = 3
    /\ nCancels >= 1
    /\ Len(ExecLog("exec")) = 2
    /\ ExecLog("execAdvanced") = ExecLog("exec")
    /\ ExecLog("exec")[1][1] = 1
    /\ ExecLog("exec")[2][1] = 3


(* C36: after deletePost(p) has returned success, currentPost never refers *)
(* to p, whatever the order of the answers of a handlePostClick(p) running *)
(* at the same time.  Stated for the posts that exist from the start: only *)
(* handlePostClick makes one of them the current post.                     *)
C36_DeletedPostNotCurrent ==
    \A p \in StoredPosts \cap deleted : currentPost.id # p


StoreActions == {"fetchPosts", "createPost", "publishPost", "deletePost"}

(* C37: when the API call of fetchPosts, createPost, publishPost or        *)
(* deletePost fails, the action leaves posts and currentPost as they are,  *)
(* sets error to a message and isLoading to false.                         *)
C37_FailureLeavesData ==
    [][ \A r \in reqs :
          ( /\ r.phase = "answered"
            /\ ~r.ok
            /\ r.op \in StoreActions
            /\ reqs' = reqs \ {r} )
          => /\ posts' = posts
             /\ currentPost' = currentPost
             /\ storeError' # NoError
             /\ isLoading' = FALSE ]_vars

(* a deletePost of the current post failed while another action was still  *)
(* waiting: the post is still current and listed, the error is set         *)
C37_Witness ==
    /\ storeError = "Failed: deletePost"
    /\ ~isLoading
    /\ currentPost # NoCurrent
    /\ currentPost.id \in listed(posts)
    /\ reqs # {}
    /\ deleted = {}

=============================================================================
